---- MODULE Spec2Model ----
(***************************************************************************)
(* Series-aware label propagation, series identity resolution, training,   *)
(* prediction and input loading of the EnvisionPerdido event pipeline.     *)
(*                                                                         *)
(* A table (pandas DataFrame) is a sequence of rows.  A label cell is      *)
(* held by its str() form, which is what the strict propagators read       *)
(* (group.astype(str)): "nan" is a missing cell, "0"/"1" an int or string  *)
(* cell, "0.0"/"1.0" a float cell.  A series_id cell is a key or NaN.      *)
(***************************************************************************)
EXTENDS Integers, Sequences, FiniteSets, TLC

VARIABLES
    script,     \* which script runs: "fill", "train", "merge", "auto", "resolve",
                \* "trainer", "auto_train", a predictor or a load_any
    pc,         \* "loaded", "done" after one run of the stage, "again" after a second
    df,         \* the table the script works on
    df0,        \* the table as loaded
    prev,       \* the table before the last propagation call
    merged,     \* merge script: the final_label column before propagation
    conflicts,  \* series keys the stage has reported as conflicting
    report,     \* what main() of fill_recurring_labels prints
    events,     \* resolver input: event records (uid, url, title, location)
    series,     \* resolver output: one series key per event
    label_source, \* auto-label pipeline: the label_source column, one cell per row
    inp,        \* trainer, predictor and loader stages: what the stage is given
    out,        \* trainer, predictor and loader stages: what the stage produced
    artifact,   \* the model files on disk, one entry per path
    trace       \* the steps a multi-step run has taken so far, oldest first

vars == <<script, pc, df, df0, prev, merged, conflicts, report, events, series,
          label_source, inp, out, artifact, trace>>

runVars == <<artifact, trace>>

-----------------------------------------------------------------------------
(* Bounds *)

MaxRows == 3    \* rows of a label table
MaxVoteRows == 4    \* rows of a table of the majority-vote runs
MaxLabeled == 5    \* labeled rows given to a trainer
MaxEvents == 2    \* events given to a predictor
MaxRuns == 3    \* stage runs in one life cycle of the classifier
MaxMergeRows == 2    \* rows of each table given to predict_labels and merge_datasets
MarginScale == 4    \* a margin is a whole number of 1/MarginScale
MaxMargin == 5    \* the largest absolute margin, in 1/MarginScale
MaxUrlLen == 3  \* characters of a url
MaxPageEvents == 1    \* events one month page yields

-----------------------------------------------------------------------------
(* The disk and the run log *)

\* the model files: the artifact of svm_train_from_file.py, which the taggers
\* read, and the model and vectorizer files automated_pipeline.py reads
ModelPaths == {"models/community_svm.pkl", "data/artifacts"}

\* a path at which no file exists
NoFile == [kind |-> "missing", fit |-> "none"]

NoArtifact == [p \in ModelPaths |-> NoFile]

\* no model file exists and no step of a run has been taken
NoRuns == artifact = NoArtifact /\ trace = <<>>

-----------------------------------------------------------------------------
(* Cell values *)

NaN == "NaN"                                  \* a missing series_id cell
SeriesIds == {NaN, "", "A", "B"}
LabelStrs == {"nan", "0", "1", "0.0", "1.0"}  \* str() of a label cell
FloatLabels == {"nan", "0.0", "1.0"}          \* a float64 label column

\* v.replace('.0', '', 1).strip() on the str() form of a label cell
Clean(v) ==
    CASE v = "0.0" -> "0"
      [] v = "1.0" -> "1"
      [] OTHER -> v

\* the class (0, 1) a label cell stands for, -1 for a missing cell
LabelValue(v) ==
    CASE Clean(v) = "0" -> 0
      [] Clean(v) = "1" -> 1
      [] OTHER -> -1

Uids == {"E1", "e?series_id=7"}               \* uid cells of the auto-label tables

Row(u, s, l, p) ==
    [uid |-> u, series_id |-> s, label |-> l, predicted_label |-> p]

Rows(uids, sids, labels, preds) ==
    {Row(u, s, l, p) : u \in uids, s \in sids, l \in labels, p \in preds}

\* the stage runs once, and once more on its own output
CanRun == pc \in {"loaded", "done"}
Advance(p) == IF p = "loaded" THEN "done" ELSE "again"

\* rows of df that groupby("series_id") puts in the group of key k
Group(d, k) == {j \in DOMAIN d : d[j].series_id = k}

-----------------------------------------------------------------------------
(* fill_recurring_labels.py: strict propagation *)

\* faulty variant: the fill is skipped (the group is returned as it came)
propagate_none(d, g) == [j \in g |-> d[j].label]

\* the closure propagate(group): the new label of every member of group g
propagate(d, g) ==
    LET vals == {Clean(d[j].label) : j \in g} \cap {"0", "1"}
    IN  [j \in g |->
            IF Cardinality(vals) = 1
            THEN IF Clean(d[j].label) \in {"0", "1"} THEN d[j].label
                 ELSE CHOOSE v \in vals : TRUE
            ELSE d[j].label]

\* faulty variant: the groups are taken by uid
fill_recurring_labels_by_uid(d) ==
    [i \in DOMAIN d |->
        [d[i] EXCEPT !.label = propagate(d, {j \in DOMAIN d : d[j].uid = d[i].uid})[i]]]

\* df.groupby("series_id")[label].transform(propagate): rows whose key is NaN
\* belong to no group and come back as NaN
fill_recurring_labels(d) ==
    [i \in DOMAIN d |->
        IF d[i].series_id = NaN
        THEN [d[i] EXCEPT !.label = "nan"]
        ELSE [d[i] EXCEPT !.label = propagate(d, Group(d, d[i].series_id))[i]]]

IsLabeled(v) == Clean(v) \in {"0", "1"}

\* the counts and listings main() prints
fill_report(before, after) ==
    [labeled_before |-> Cardinality({i \in DOMAIN before : IsLabeled(before[i].label)}),
     labeled_after  |-> Cardinality({i \in DOMAIN after : IsLabeled(after[i].label)}),
     filled_series  |-> {after[i].series_id : i \in {j \in DOMAIN after :
                            after[j].series_id # NaN /\ IsLabeled(after[j].label)}},
     unlabeled      |-> {after[i].series_id : i \in {j \in DOMAIN after :
                            ~IsLabeled(after[j].label)}}]

NoReport == [labeled_before |-> 0, labeled_after |-> 0, filled_series |-> {}, unlabeled |-> {}]

FillRecurringLabels ==
    /\ script = "fill"
    /\ CanRun
    /\ prev' = df
    /\ df' = fill_recurring_labels(df)
    /\ report' = fill_report(df, df')
    /\ pc' = Advance(pc)
    /\ UNCHANGED <<script, df0, merged, conflicts, events, series, label_source, inp, out, runVars>>

-----------------------------------------------------------------------------
(* svm_train_from_file.py: --propagate-series-labels *)

train_propagate(d, g) ==
    LET vals == {d[j].label : j \in g} \cap {"0", "1"}
    IN  [j \in g |->
            IF Cardinality(vals) = 1
            THEN IF d[j].label \in {"0", "1"} THEN d[j].label
                 ELSE CHOOSE v \in vals : TRUE
            ELSE d[j].label]

train_propagate_labels(d) ==
    [i \in DOMAIN d |->
        IF d[i].series_id = NaN
        THEN [d[i] EXCEPT !.label = "nan"]
        ELSE [d[i] EXCEPT !.label = train_propagate(d, Group(d, d[i].series_id))[i]]]

TrainPropagate ==
    /\ script = "train"
    /\ CanRun
    /\ prev' = df
    /\ df' = train_propagate_labels(df)
    /\ pc' = Advance(pc)
    /\ UNCHANGED <<script, df0, merged, conflicts, report, events, series, label_source, inp, out, runVars>>

-----------------------------------------------------------------------------
(* merge_and_propagate_labels.py: merge, then majority-vote propagation *)

\* faulty variant: the predicted label wins over the manual one
merge_predicted_first(label, predicted) == IF predicted = "nan" THEN label ELSE predicted

\* df['label'].fillna(df['predicted_label']) for one row
merge(label, predicted) == IF label = "nan" THEN predicted ELSE label

\* faulty variant: the largest of the most frequent values on a tie
FirstMode_last(vals) ==
    LET n0 == Cardinality({j \in DOMAIN vals : LabelValue(vals[j]) = 0})
        n1 == Cardinality({j \in DOMAIN vals : LabelValue(vals[j]) = 1})
    IN  IF n1 >= n0 THEN "1.0" ELSE "0.0"

\* labeled.mode().iloc[0]: the most frequent value, the smallest one on a tie
FirstMode(vals) ==
    LET n0 == Cardinality({j \in DOMAIN vals : LabelValue(vals[j]) = 0})
        n1 == Cardinality({j \in DOMAIN vals : LabelValue(vals[j]) = 1})
    IN  IF n1 > n0 THEN "1.0" ELSE "0.0"

\* faulty variant: fillna(fill_value, limit=1) fills one gap per call
propagate_series_one(col, g) ==
    LET labeled == {j \in g : col[j] # "nan"}
        gaps == g \ labeled
        first == CHOOSE j \in gaps : \A k \in gaps : j <= k
    IN  [j \in g |->
            IF labeled # {} /\ col[j] = "nan" /\ j = first
            THEN FirstMode([k \in labeled |-> col[k]])
            ELSE col[j]]

\* the closure propagate_series(group) on the column col
propagate_series(col, g) ==
    LET labeled == {j \in g : col[j] # "nan"}
    IN  [j \in g |->
            IF labeled # {} /\ col[j] = "nan"
            THEN FirstMode([k \in labeled |-> col[k]])
            ELSE col[j]]

\* df['series_id'].notna() & (df['series_id'] != '')
valid_series(d, i) == d[i].series_id # NaN /\ d[i].series_id # ""

\* main(): final_label = label.fillna(predicted_label); the propagation over
\* the rows with a valid series_id; label = final_label
MergeAndPropagate ==
    /\ script = "merge"
    /\ CanRun
    /\ prev' = df
    /\ merged' = [i \in DOMAIN df |-> merge(df[i].label, df[i].predicted_label)]
    /\ LET final(i) ==
               IF valid_series(df, i)
               THEN propagate_series(merged',
                        {j \in Group(df, df[i].series_id) : valid_series(df, j)})[i]
               ELSE merged'[i]
       IN  df' = [i \in DOMAIN df |-> [df[i] EXCEPT !.label = final(i)]]
    /\ pc' = Advance(pc)
    /\ UNCHANGED <<script, df0, conflicts, report, events, series, label_source, inp, out, runVars>>

-----------------------------------------------------------------------------
(* auto_label_and_train.py: propagate_series_labels *)

\* re.search(r'series_id=(\d+)', str(uid)): the number when the uid holds one
\* (kept as the key "7"), None otherwise
extract_series_id(uid) ==
    CASE uid = NaN -> NaN
      [] uid = "e?series_id=7" -> "7"
      [] OTHER -> NaN

\* the series_id column is derived from the uid when it holds no key at all
with_series_id(d) ==
    IF \A i \in DOMAIN d : d[i].series_id = NaN
    THEN [i \in DOMAIN d |-> [d[i] EXCEPT !.series_id = extract_series_id(d[i].uid)]]
    ELSE d

\* for series_id, group in df.groupby('series_id'): the whole group takes the
\* majority label when the group has any label
propagate_series_labels(d0) ==
    LET d == with_series_id(d0)
    IN  [i \in DOMAIN d |->
            LET g == Group(d, d[i].series_id)
                labels == {j \in g : d[j].label # "nan"}
            IN  IF d[i].series_id # NaN /\ labels # {}
                THEN [d[i] EXCEPT !.label = FirstMode([k \in labels |-> d[k].label])]
                ELSE d[i]]

\* df.loc[group.index, 'label_source'] = 'series_propagation': every row of a
\* group that has any label gets the mark, the other cells stay as they were
propagate_label_source(d0, src) ==
    LET d == with_series_id(d0)
    IN  [i \in DOMAIN d |->
            LET g == Group(d, d[i].series_id)
                labels == {j \in g : d[j].label # "nan"}
            IN  IF d[i].series_id # NaN /\ labels # {}
                THEN "series_propagation"
                ELSE src[i]]

AutoPropagate ==
    /\ script = "auto"
    /\ CanRun
    /\ prev' = df
    /\ df' = propagate_series_labels(df)
    /\ label_source' = propagate_label_source(df, label_source)
    /\ pc' = Advance(pc)
    /\ UNCHANGED <<script, df0, merged, conflicts, report, events, series, inp, out, runVars>>

-----------------------------------------------------------------------------
(* The label stages *)

Init ==
    /\ script \in {"fill", "train", "merge", "auto"}
    /\ \E n \in 1..MaxRows :
        df \in [1..n ->
                CASE script \in {"fill", "train"} -> Rows({"E1"}, SeriesIds, LabelStrs, {"nan"})
                  [] script = "merge" -> Rows({"E1"}, SeriesIds \ {"B"}, FloatLabels, FloatLabels)
                  [] OTHER -> Rows(Uids, SeriesIds, FloatLabels, {"nan"})]
    /\ df0 = df
    /\ prev = df
    /\ pc = "loaded"
    /\ merged = <<>>
    /\ conflicts = {}
    /\ report = NoReport
    /\ events = <<>>
    /\ series = <<>>
    /\ label_source = [i \in DOMAIN df |-> "nan"]
    /\ inp = <<>>
    /\ out = <<>>
    /\ NoRuns

Next ==
    \/ FillRecurringLabels
    \/ TrainPropagate
    \/ MergeAndPropagate
    \/ AutoPropagate

Spec == Init /\ [][Next]_vars

-----------------------------------------------------------------------------
(* The majority-vote propagators on longer tables of fewer cell kinds *)

InitMajority ==
    /\ script \in {"merge", "auto"}
    /\ \E n \in 1..MaxVoteRows :
        df \in [1..n -> Rows({"E1"}, {NaN, "A", "B"}, FloatLabels, {"nan"})]
    /\ df0 = df
    /\ prev = df
    /\ pc = "loaded"
    /\ merged = <<>>
    /\ conflicts = {}
    /\ report = NoReport
    /\ events = <<>>
    /\ series = <<>>
    /\ label_source = [i \in DOMAIN df |-> "nan"]
    /\ inp = <<>>
    /\ out = <<>>
    /\ NoRuns

NextMajority ==
    \/ MergeAndPropagate
    \/ AutoPropagate

SpecMajority == InitMajority /\ [][NextMajority]_vars

-----------------------------------------------------------------------------
(* make_series_id (fill_recurring_labels.py, and the identical copy in     *)
(* svm_train_from_file.py).  A string is a sequence of characters; NA is   *)
(* a missing cell (NaN) of the event table.                                *)

NA == <<"NaN">>

UrlChars == {"x", "/", "?", "#"}

RECURSIVE Strings(_, _)
\* the strings over alphabet cs of length at most n
Strings(cs, n) ==
    IF n = 0 THEN {<<>>}
    ELSE LET shorter == Strings(cs, n - 1)
         IN  shorter \cup {Append(t, c) : t \in {u \in shorter : Len(u) = n - 1}, c \in cs}

\* str(v), astype(str): a missing cell becomes the text "nan"
Str(v) == IF v = NA THEN <<"n", "a", "n">> ELSE v

RECURSIVE LStrip(_)
LStrip(t) == IF t # <<>> /\ Head(t) = " " THEN LStrip(Tail(t)) ELSE t

RECURSIVE RStripChar(_, _)
\* s.rstrip(c)
RStripChar(t, c) ==
    IF t # <<>> /\ t[Len(t)] = c THEN RStripChar(SubSeq(t, 1, Len(t) - 1), c) ELSE t

\* s.strip()
Strip(t) == RStripChar(LStrip(t), " ")

\* re.sub(r"[\?#].*$", "", u): cut at the first '?' or '#'
StripQuery(t) ==
    LET marks == {i \in DOMAIN t : t[i] \in {"?", "#"}}
    IN  IF marks = {} THEN t
        ELSE SubSeq(t, 1, (CHOOSE i \in marks : \A j \in marks : i <= j) - 1)

\* _norm_url: str(u or ""); NaN is truthy, so a missing url is the text "nan"
_norm_url(u) ==
    LET t == Strip(Str(u))
    IN  IF t = <<>> THEN <<>> ELSE RStripChar(StripQuery(t), "/")

Lower(c) == CASE c = "A" -> "a" [] c = "L" -> "l" [] OTHER -> c

RECURSIVE CollapseSpaces(_)
\* re.sub(r"\s+", " ", s)
CollapseSpaces(t) ==
    IF Len(t) < 2 THEN t
    ELSE IF t[1] = " " /\ t[2] = " " THEN CollapseSpaces(Tail(t))
    ELSE <<t[1]>> \o CollapseSpaces(Tail(t))

\* _norm_str: lower-case, collapse whitespace, strip, then drop what is not [a-z0-9 ]
_norm_str(v) ==
    LET t == Strip(CollapseSpaces([i \in DOMAIN Str(v) |-> Lower(Str(v)[i])]))
    IN  SelectSeq(t, LAMBDA c : c \in {"a", "l", "n", " "})

\* make_series_id for one row: uid, else url, else title|location
make_series_id(e) ==
    LET uid == Strip(Str(e.uid))
        url == _norm_url(e.url)
    IN  IF uid # <<>> THEN uid
        ELSE IF url # <<>> THEN url
        ELSE _norm_str(e.title) \o <<"|">> \o _norm_str(e.location)

UidCells == {NA, <<>>, <<" ">>, <<" ", "u">>}
UrlCells == {NA} \cup Strings(UrlChars, MaxUrlLen)
TitleCells == {<<"A", " ", " ", "a">>, <<"a", "!">>}

Event(u, l, t) == [uid |-> u, url |-> l, title |-> t, location |-> <<"L">>]

\* main(): df["series_id"] = make_series_id(df, ...) when the column is missing
MakeSeriesId ==
    /\ script = "resolve"
    /\ pc = "loaded"
    /\ series' = [i \in DOMAIN events |-> make_series_id(events[i])]
    /\ pc' = "done"
    /\ UNCHANGED <<script, df, df0, prev, merged, conflicts, report, events,
                   label_source, inp, out, runVars>>

InitResolver ==
    /\ script = "resolve"
    /\ pc = "loaded"
    /\ events \in {<<Event(u1, l1, t1), Event(u2, l2, <<"a", "!">>)>> :
                    u1 \in UidCells, l1 \in UrlCells, t1 \in TitleCells,
                    u2 \in UidCells, l2 \in UrlCells}
    /\ series = <<>>
    /\ df = <<>>
    /\ df0 = <<>>
    /\ prev = <<>>
    /\ merged = <<>>
    /\ conflicts = {}
    /\ report = NoReport
    /\ label_source = <<>>
    /\ inp = <<>>
    /\ out = <<>>
    /\ NoRuns

NextResolver == MakeSeriesId

SpecResolver == InitResolver /\ [][NextResolver]_vars

-----------------------------------------------------------------------------
(* svm_train_from_file.py main(), from the labeled subset df_l on, and the  *)
(* first training step of auto_label_and_train.py main().  A labeled row is *)
(* its series_id and its class y; the text of the rows enters through the   *)
(* two inputs saying whether the tf-idf vocabulary of a fit is non-empty.   *)

tableVars == <<df, df0, prev, merged, conflicts, report, events, series, label_source>>

\* no label table and no resolver input is loaded
NoTables ==
    /\ df = <<>> /\ df0 = <<>> /\ prev = <<>> /\ merged = <<>>
    /\ conflicts = {} /\ report = NoReport
    /\ events = <<>> /\ series = <<>> /\ label_source = <<>>

TrainKeys == {"A", "B", "C"}

TrainRows == {[series_id |-> k, y |-> c] : k \in TrainKeys, c \in {0, 1}}

\* TfidfVectorizer(min_df=2, max_df=0.9)
min_df == 2
max_df_tenths == 9
\* GroupShuffleSplit(test_size=0.2): one group in five
test_size_inverse == 5
\* df_l["series_id"].nunique() >= 3 and len(np.unique(y)) >= 2
min_series == 3
min_classes == 2
\* if len(labeled_df) < 5
min_labeled == 5

Classes(rows, idx) == {rows[i].y : i \in idx}

\* Series.nunique(): the distinct values, NaN not counted
nunique(rows, idx) == Cardinality({rows[i].series_id : i \in idx} \ {NaN})

\* df_l["series_id"].astype(str): NaN becomes the group "nan"
GroupNames(rows, idx) == {IF rows[i].series_id = NaN THEN "nan" ELSE rows[i].series_id : i \in idx}

InGroups(rows, idx, gs) ==
    {i \in idx : (IF rows[i].series_id = NaN THEN "nan" ELSE rows[i].series_id) \in gs}

\* --collapse-series: drop_duplicates(subset=["series_id"]) keeps one row per
\* series_id value (NaN is one value), the one with the longest description
collapse_series(rows, collapse) ==
    IF collapse
    THEN {keep \in SUBSET DOMAIN rows :
            /\ \A i \in DOMAIN rows : \E j \in keep : rows[j].series_id = rows[i].series_id
            /\ \A i, j \in keep : rows[i].series_id = rows[j].series_id => i = j}
    ELSE {DOMAIN rows}

\* pipe.fit on the rows idx: the vectorizer raises ValueError when max_df * n
\* is below min_df or when no term is left, LinearSVC raises it when the rows
\* hold one class
fit(rows, idx, vocab_ok) ==
    IF max_df_tenths * Cardinality(idx) < 10 * min_df THEN "ValueError"
    ELSE IF ~vocab_ok THEN "ValueError"
    ELSE IF Cardinality(Classes(rows, idx)) < min_classes THEN "ValueError"
    ELSE "fitted"

\* GroupShuffleSplit.split: ceil(0.2 * groups) whole groups form the test side,
\* the other groups the training side; which ones is left open
GroupShuffleSplit(rows, idx) ==
    LET gs == GroupNames(rows, idx)
        n_test == (Cardinality(gs) + test_size_inverse - 1) \div test_size_inverse
    IN  {T \in SUBSET gs : Cardinality(T) = n_test}

Result(e, f, u, tr, te, sv) ==
    [exit |-> e, fit |-> f, used |-> u, train_idx |-> tr, test_idx |-> te, saved |-> sv]

\* pipe.fit(X, y) on all rows: of the else branch (how = "all") or of the
\* except branch (how = "fallback"); a failure here is not caught
fit_all(rows, keep, vocab_ok, how) ==
    IF fit(rows, keep, vocab_ok) = "fitted"
    THEN Result("ok", how, keep, keep, {}, TRUE)
    ELSE Result("ValueError", "none", keep, {}, {}, FALSE)

\* faulty variant: two distinct series are enough for a split
split_wanted_two(rows, keep) ==
    nunique(rows, keep) >= 2 /\ Cardinality(Classes(rows, keep)) >= min_classes

\* if df_l["series_id"].nunique() >= 3 and len(np.unique(y)) >= 2
split_wanted(rows, keep) ==
    nunique(rows, keep) >= min_series /\ Cardinality(Classes(rows, keep)) >= min_classes

\* faulty variant: the dump is written whether or not a fit succeeded
joblib_dump_unfitted(result, file) == [kind |-> "columns", fit |-> result.fit]

\* joblib.dump({"pipe": pipe, ..., "columns": {...}}, args.model_path): reached
\* only when a fit returned; the file then holds the pipe and the mapping
joblib_dump(result, file) ==
    IF result.saved THEN [kind |-> "columns", fit |-> result.fit] ELSE file

\* main() from "keep labeled rows only" to joblib.dump
Train ==
    /\ script = "trainer"
    /\ pc = "loaded"
    /\ IF inp.rows = <<>>
       THEN out' = Result("SystemExit", "none", {}, {}, {}, FALSE)
       ELSE \E keep \in collapse_series(inp.rows, inp.collapse) :
            IF split_wanted(inp.rows, keep)
            THEN \E T \in GroupShuffleSplit(inp.rows, keep) :
                    LET te == InGroups(inp.rows, keep, T)
                        tr == keep \ te
                    IN  IF fit(inp.rows, tr, inp.split_vocab) = "fitted"
                        THEN out' = Result("ok", "split", keep, tr, te, TRUE)
                        ELSE out' = fit_all(inp.rows, keep, inp.all_vocab, "fallback")
            ELSE out' = fit_all(inp.rows, keep, inp.all_vocab, "all")
    /\ artifact' = [artifact EXCEPT !["models/community_svm.pkl"] =
                        joblib_dump(out', artifact["models/community_svm.pkl"])]
    /\ pc' = "done"
    /\ UNCHANGED <<script, inp, tableVars, trace>>

\* auto_label_and_train main(), steps 1 and 2: too few labeled rows print an
\* error and return; else train_initial_model fits an SVC on all of them,
\* which raises ValueError on a single class, and the pipeline goes on
AutoTrainInitial ==
    /\ script = "auto_train"
    /\ pc = "loaded"
    /\ out' = IF Len(inp.rows) < min_labeled
              THEN Result("return", "none", DOMAIN inp.rows, {}, {}, FALSE)
              ELSE IF Cardinality(Classes(inp.rows, DOMAIN inp.rows)) < min_classes
              THEN Result("ValueError", "none", DOMAIN inp.rows, {}, {}, FALSE)
              ELSE Result("continue", "all", DOMAIN inp.rows, DOMAIN inp.rows, {}, FALSE)
    /\ pc' = "done"
    /\ UNCHANGED <<script, inp, tableVars, runVars>>

InitTrain ==
    /\ script \in {"trainer", "auto_train"}
    /\ pc = "loaded"
    /\ \E n \in 0..MaxLabeled :
        IF script = "trainer"
        THEN inp \in [rows : [1..n -> TrainRows], collapse : BOOLEAN,
                      split_vocab : BOOLEAN, all_vocab : BOOLEAN]
        ELSE inp \in [rows : [1..n -> {r \in TrainRows : r.series_id = "A"}],
                      collapse : {FALSE}, split_vocab : {TRUE}, all_vocab : {TRUE}]
    /\ out = <<>>
    /\ NoRuns
    /\ NoTables

NextTrain ==
    \/ Train
    \/ AutoTrainInitial

SpecTrain == InitTrain /\ [][NextTrain]_vars

-----------------------------------------------------------------------------
(* The predictors: svm_tag_events.py, svm_tag_from_file.py,                 *)
(* smart_label_helper.py and classify_events of automated_pipeline.py.      *)
(* A margin (decision_function score) is a whole number of 1/MarginScale;   *)
(* a confidence is an exact fraction; a threshold and a class probability   *)
(* are whole hundredths.                                                    *)

Abs(m) == IF m < 0 THEN -m ELSE m

Frac(n, d) == [num |-> n, den |-> d]

\* the fraction c is below t hundredths
Below(c, t) == c.num * 100 < t * c.den

\* 1 / (1 + pd.Series(decision_scores).abs())
pseudo_probability(m) == Frac(MarginScale, MarginScale + Abs(m))

\* np.abs(df["svm_margin"])
abs_margin(m) == Frac(Abs(m), MarginScale)

\* np.max(probabilities, axis=1) of a two-class predict_proba row
max_probability(p) == Frac(IF p > 100 - p THEN p ELSE 100 - p, 100)

\* events_df['confidence'] < 0.75
review_threshold == 75

\* pipe.predict: the class on the positive side of the hyperplane is 1
predict(m) == IF m > 0 THEN 1 ELSE 0

FeatureCols == {"title", "description", "start", "location"}

\* the column sets of the input tables
InputColumns == {FeatureCols, FeatureCols \ {"description"},
                 {"summary", "description", "start", "location"}}

\* the artifact file: missing; holding a "columns" mapping (default names, or
\* the title read from "summary"); holding only the older top-level keys;
\* holding the pipe alone
Artifacts == {"missing", "columns", "columns_custom", "legacy", "bare"}

DefaultCols == [title |-> "title", desc |-> "description", start |-> "start", loc |-> "location"]

HasMapping(a) == a \in {"columns", "columns_custom"}

\* model_data["columns"] of an artifact that holds the mapping
Mapping(a) == IF a = "columns_custom" THEN [DefaultCols EXCEPT !.title = "summary"]
              ELSE DefaultCols

\* cols = model_data.get("columns", {}); cols.get("title", "title"), ...
cols_get(a) == IF HasMapping(a) THEN Mapping(a) ELSE DefaultCols

\* the mapped columns the input table lacks: each is added as a blank column
blank_columns(cols, columns) == {cols[k] : k \in DOMAIN cols} \ columns

Thresholds == {55, 75, 80}

Prediction(e, c, d, b, lab, conf, nr) ==
    [exit |-> e, cols |-> c, defaults_used |-> d, blank |-> b,
     predicted_label |-> lab, confidence |-> conf, needs_review |-> nr]

NoPrediction(e) == Prediction(e, <<>>, FALSE, {}, <<>>, <<>>, <<>>)

\* svm_tag_events.py main()
SvmTagEvents ==
    /\ script = "svm_tag_events"
    /\ pc = "loaded"
    /\ out' = IF inp.artifact = "missing" THEN NoPrediction("SystemExit")
              ELSE Prediction("ok", cols_get(inp.artifact), ~HasMapping(inp.artifact),
                        blank_columns(cols_get(inp.artifact), inp.columns),
                        [i \in DOMAIN inp.margins |-> predict(inp.margins[i])],
                        IF inp.confidence
                        THEN [i \in DOMAIN inp.margins |-> pseudo_probability(inp.margins[i])]
                        ELSE <<>>,
                        <<>>)
    /\ pc' = "done"
    /\ UNCHANGED <<script, inp, tableVars, runVars>>

\* svm_tag_from_file.py main(): joblib.load raises on a missing file, the
\* older top-level keys stand in for a missing mapping, md["title"] raises
\* KeyError when they are missing too
SvmTagFromFile ==
    /\ script = "svm_tag_from_file"
    /\ pc = "loaded"
    /\ out' = IF inp.artifact = "missing" THEN NoPrediction("FileNotFoundError")
              ELSE IF inp.artifact = "bare" THEN NoPrediction("KeyError")
              ELSE Prediction("ok", cols_get(inp.artifact), FALSE,
                        blank_columns(cols_get(inp.artifact), inp.columns),
                        [i \in DOMAIN inp.margins |-> predict(inp.margins[i])],
                        [i \in DOMAIN inp.margins |-> abs_margin(inp.margins[i])],
                        <<>>)
    /\ pc' = "done"
    /\ UNCHANGED <<script, inp, tableVars, runVars>>

\* smart_label_helper.py main() up to the call of smart_label, and smart_label
SmartLabel ==
    /\ script = "smart_label_helper"
    /\ pc = "loaded"
    /\ out' = IF inp.artifact = "missing" THEN NoPrediction("SystemExit")
              ELSE LET confidence == [i \in DOMAIN inp.margins |-> pseudo_probability(inp.margins[i])]
                   IN  Prediction("ok", cols_get(inp.artifact), ~HasMapping(inp.artifact),
                            blank_columns(cols_get(inp.artifact), inp.columns),
                            [i \in DOMAIN inp.margins |-> predict(inp.margins[i])],
                            confidence,
                            [i \in DOMAIN inp.margins |-> Below(confidence[i], inp.threshold)])
    /\ pc' = "done"
    /\ UNCHANGED <<script, inp, tableVars, runVars>>

\* automated_pipeline.classify_events: no threshold parameter, the model's
\* own text columns; predict and predict_proba of the SVC are both inputs
ClassifyEvents ==
    /\ script = "automated_pipeline"
    /\ pc = "loaded"
    /\ out' = IF inp.artifact = "missing" THEN NoPrediction("None")
              ELSE LET confidence == [i \in DOMAIN inp.probabilities |->
                                        max_probability(inp.probabilities[i])]
                   IN  Prediction("ok", <<>>, FALSE, {},
                            inp.predictions,
                            confidence,
                            [i \in DOMAIN inp.probabilities |->
                                Below(confidence[i], review_threshold)])
    /\ pc' = "done"
    /\ UNCHANGED <<script, inp, tableVars, runVars>>

Margins == -MaxMargin..MaxMargin

\* P(class 1) of predict_proba, in hundredths
Probabilities == {10, 25, 40, 60}

InitPredict ==
    /\ script \in {"svm_tag_events", "svm_tag_from_file", "smart_label_helper",
                   "automated_pipeline"}
    /\ pc = "loaded"
    /\ \E n \in 1..MaxEvents :
        CASE script = "svm_tag_events" ->
                inp \in [artifact : Artifacts, columns : InputColumns,
                         margins : [1..n -> Margins], confidence : BOOLEAN]
          [] script = "svm_tag_from_file" ->
                inp \in [artifact : Artifacts, columns : InputColumns,
                         margins : [1..n -> Margins]]
          [] script = "smart_label_helper" ->
                inp \in [artifact : Artifacts, columns : InputColumns,
                         margins : [1..n -> Margins], threshold : Thresholds]
          [] OTHER ->
                inp \in [artifact : {"missing", "bare"}, threshold : Thresholds,
                         probabilities : [1..n -> Probabilities],
                         predictions : [1..n -> {0, 1}]]
    /\ out = <<>>
    /\ NoRuns
    /\ NoTables

NextPredict ==
    \/ SvmTagEvents
    \/ SvmTagFromFile
    \/ SmartLabel
    \/ ClassifyEvents

SpecPredict == InitPredict /\ [][NextPredict]_vars

-----------------------------------------------------------------------------
(* load_any of svm_train_from_file.py, svm_tag_events.py (the same code as  *)
(* in svm_tag_from_file.py) and events_to_labelset.py.  The input is the    *)
(* suffix of the path and the parsed JSON document: a list, a scalar        *)
(* (string, number, true, false, null), or an object, with the kind of its  *)
(* "events" member when it has one.                                         *)

Suffixes == {".csv", ".CSV", ".json", ".JSON", ".txt"}

\* p.suffix.lower()
suffix_lower(x) ==
    CASE x = ".CSV" -> ".csv"
      [] x = ".JSON" -> ".json"
      [] OTHER -> x

Documents ==
    {[kind |-> "list", events |-> "none"], [kind |-> "scalar", events |-> "none"]}
    \cup {[kind |-> "dict", events |-> e] : e \in {"none", "list", "dict", "scalar"}}

\* if isinstance(data, dict) and "events" in data: data = data["events"]
unwrap(data) == IF data.kind = "dict" /\ data.events # "none" THEN data.events ELSE data.kind

Loaded(e, t) == [exit |-> e, table |-> t]

\* pd.json_normalize: a list gives its rows, a dict one row, a scalar raises
json_normalize(kind) ==
    CASE kind = "list" -> Loaded("ok", "rows")
      [] kind = "dict" -> Loaded("ok", "one_row")
      [] OTHER -> Loaded("NotImplementedError", "none")

\* load_any of the trainer and of the taggers
load_any(suffix, data) ==
    IF suffix_lower(suffix) = ".csv" THEN Loaded("ok", "csv")
    ELSE IF suffix_lower(suffix) = ".json" THEN json_normalize(unwrap(data))
    ELSE Loaded("SystemExit", "none")

\* load_any of events_to_labelset.py: what is not a list after unwrapping is
\* refused
labelset_load_any(suffix, data) ==
    IF suffix_lower(suffix) = ".json"
    THEN IF unwrap(data) # "list" THEN Loaded("SystemExit", "none")
         ELSE json_normalize(unwrap(data))
    ELSE IF suffix_lower(suffix) = ".csv" THEN Loaded("ok", "csv")
    ELSE Loaded("SystemExit", "none")

TrainLoadAny ==
    /\ script = "svm_train_from_file.load_any"
    /\ pc = "loaded"
    /\ out' = load_any(inp.suffix, inp.data)
    /\ pc' = "done"
    /\ UNCHANGED <<script, inp, tableVars, runVars>>

TagLoadAny ==
    /\ script = "svm_tag_events.load_any"
    /\ pc = "loaded"
    /\ out' = load_any(inp.suffix, inp.data)
    /\ pc' = "done"
    /\ UNCHANGED <<script, inp, tableVars, runVars>>

LabelsetLoadAny ==
    /\ script = "events_to_labelset.load_any"
    /\ pc = "loaded"
    /\ out' = labelset_load_any(inp.suffix, inp.data)
    /\ pc' = "done"
    /\ UNCHANGED <<script, inp, tableVars, runVars>>

InitLoad ==
    /\ script \in {"svm_train_from_file.load_any", "svm_tag_events.load_any",
                   "events_to_labelset.load_any"}
    /\ pc = "loaded"
    /\ inp \in [suffix : Suffixes, data : Documents]
    /\ out = <<>>
    /\ NoRuns
    /\ NoTables

NextLoad ==
    \/ TrainLoadAny
    \/ TagLoadAny
    \/ LabelsetLoadAny

SpecLoad == InitLoad /\ [][NextLoad]_vars

-----------------------------------------------------------------------------
(* The classifier life cycle: the trainer and the predictors run one after  *)
(* the other on one disk.  A stage is given the artifact it finds at its    *)
(* path when it starts.                                                     *)

PredictorScripts == {"svm_tag_events", "svm_tag_from_file", "smart_label_helper",
                     "automated_pipeline"}

\* --model-path default of the taggers; MODEL_PATH / VECTORIZER_PATH of the pipeline
model_path(s) == IF s = "automated_pipeline" THEN "data/artifacts"
                 ELSE "models/community_svm.pkl"

\* what joblib.load / Path.exists find in a file
ArtifactKind(file) == file.kind

\* the arguments and the input table of a predictor run that finds artifact kind k
PredictorInputs(s, k) ==
    CASE s = "svm_tag_events" ->
            [artifact : {k}, columns : InputColumns, margins : [1..1 -> {-1, 1}],
             confidence : BOOLEAN]
      [] s = "svm_tag_from_file" ->
            [artifact : {k}, columns : InputColumns, margins : [1..1 -> {-1, 1}]]
      [] s = "smart_label_helper" ->
            [artifact : {k}, columns : InputColumns, margins : [1..1 -> {-1, 1}],
             threshold : {55}]
      [] OTHER ->
            [artifact : {k}, threshold : {55}, probabilities : [1..1 -> {40, 60}],
             predictions : [1..1 -> {0, 1}]]

\* the tables of a trainer run: no labeled row, or three labeled rows of one series
TrainerInputs ==
    UNION {[rows : [1..n -> {r \in TrainRows : r.series_id = "A"}], collapse : {FALSE},
            split_vocab : {TRUE}, all_vocab : BOOLEAN] : n \in {0, 3}}

\* python svm_train_from_file.py --input ...
RunTrainer ==
    /\ pc \in {"idle", "done"}
    /\ Len(trace) < MaxRuns
    /\ script' = "trainer"
    /\ inp' \in TrainerInputs
    /\ out' = <<>>
    /\ pc' = "loaded"
    /\ trace' = Append(trace, "trainer")
    /\ UNCHANGED <<tableVars, artifact>>

\* python svm_tag_events.py --input ..., and likewise the other predictors
RunPredictor ==
    /\ pc \in {"idle", "done"}
    /\ Len(trace) < MaxRuns
    /\ \E s \in PredictorScripts :
        /\ script' = s
        /\ inp' \in PredictorInputs(s, ArtifactKind(artifact[model_path(s)]))
        /\ trace' = Append(trace, s)
    /\ out' = <<>>
    /\ pc' = "loaded"
    /\ UNCHANGED <<tableVars, artifact>>

InitLifecycle ==
    /\ script = "none"
    /\ pc = "idle"
    /\ inp = <<>>
    /\ out = <<>>
    /\ NoRuns
    /\ NoTables

NextLifecycle ==
    \/ RunTrainer
    \/ Train
    \/ RunPredictor
    \/ SvmTagEvents
    \/ SvmTagFromFile
    \/ SmartLabel
    \/ ClassifyEvents

SpecLifecycle == InitLifecycle /\ [][NextLifecycle]_vars

-----------------------------------------------------------------------------
(* Envision_Perdido_DataCollection.py: get_ics_url_from_event.  A url is a  *)
(* host and a path, the path a sequence of segments; an href without a host *)
(* is relative.  The session is requests.Session, or the DummySession the   *)
(* tests put in its place.                                                  *)

BASE == "https://business.perdidochamber.com"

Url(h, p) == [host |-> h, path |-> p]

\* the value None
None == Url("None", <<>>)

\* no such anchor on the page
NoAnchor == Url("no anchor", <<>>)

\* an anchor whose href attribute is missing or empty
NoHref == Url("", <<>>)

\* urljoin(BASE, href): an absolute href stands, a relative one takes BASE's host
urljoin(base, href) == IF href.host # "" THEN href ELSE Url(base, href.path)

\* faulty variant: the first .ics anchor is taken before the named one
find_ics_links_generic_first(page) ==
    IF page.generic \notin {NoAnchor, NoHref} THEN urljoin(BASE, page.generic)
    ELSE IF page.ical \notin {NoAnchor, NoHref} THEN urljoin(BASE, page.ical)
    ELSE None

\* find_ics_links: the anchor named 'Add to Calendar - iCal' when it has an
\* href, else the first anchor whose href ends in .ics
find_ics_links(page) ==
    IF page.ical \notin {NoAnchor, NoHref} THEN urljoin(BASE, page.ical)
    ELSE IF page.generic \notin {NoAnchor, NoHref} THEN urljoin(BASE, page.generic)
    ELSE None

\* re.search(r'/events/details/([^/]+)', path): the segment after the first
\* events/details pair that is followed by a non-empty segment
details_slug(path) ==
    LET hits == {k \in 1..(Len(path) - 2) :
                    path[k] = "events" /\ path[k + 1] = "details" /\ path[k + 2] # ""}
    IN  IF hits = {} THEN ""
        ELSE path[(CHOOSE k \in hits : \A j \in hits : k <= j) + 2]

\* sess.get(...) and response.raise_for_status(): requests raises HTTPError, a
\* RequestException, on status 400 to 599 and ConnectionError when there is no
\* response; the DummySession's response raises a plain Exception outside
\* 200 to 299
raise_for_status(session, status) ==
    IF session = "requests"
    THEN IF status = 0 THEN "RequestException"
         ELSE IF status >= 400 /\ status < 600 THEN "RequestException"
         ELSE "none"
    ELSE IF status >= 200 /\ status < 300 THEN "none" ELSE "Exception"

Fetched(e, v) == [exit |-> e, value |-> v]

get_ics_url_from_event(session, event_url, status, page) ==
    LET raised == raise_for_status(session, status)
    IN  IF raised = "RequestException" THEN Fetched("return", None)
        ELSE IF raised = "Exception" THEN Fetched("raise", None)
        ELSE IF find_ics_links(page) # None THEN Fetched("return", find_ics_links(page))
        ELSE IF details_slug(event_url.path) # ""
        THEN Fetched("return",
                urljoin(BASE, Url("", <<"events", "ical", details_slug(event_url.path) \o ".ics">>)))
        ELSE Fetched("return", None)

\* scrape_month: ics = get_ics_url_from_event(page_url)
GetIcsUrlFromEvent ==
    /\ script = "get_ics_url_from_event"
    /\ pc = "loaded"
    /\ out' = get_ics_url_from_event(inp.session, inp.event_url, inp.status, inp.page)
    /\ pc' = "done"
    /\ UNCHANGED <<script, inp, tableVars, runVars>>

EventPaths ==
    {<<"events", "details", "some-event-12345">>, <<"random-page">>,
     <<"events", "details">>, <<"events", "details", "">>,
     <<"x", "events", "details", "a", "b">>}

Hrefs == {NoAnchor, NoHref, Url("", <<"events", "ical", "e.ics">>),
          Url("https://other.example", <<"e.ics">>)}

\* the HTTP status of the response, 0 when the request got none
Statuses == {0, 200, 302, 404, 500}

InitIcs ==
    /\ script = "get_ics_url_from_event"
    /\ pc = "loaded"
    /\ inp \in [session : {"requests", "DummySession"},
                 event_url : {Url(BASE, p) : p \in EventPaths},
                 status : Statuses,
                 page : [ical : Hrefs, generic : Hrefs \ {NoHref}]]
    /\ out = <<>>
    /\ NoRuns
    /\ NoTables

NextIcs == GetIcsUrlFromEvent

SpecIcs == InitIcs /\ [][NextIcs]_vars

-----------------------------------------------------------------------------
(* auto_label_and_train.py: predict_labels and merge_datasets.  A row is    *)
(* its uid (NaN when missing) and its label cell; label_source is a string  *)
(* or "nan".                                                                *)

MergeUids == {NaN, "E1", "E2"}

\* df['label'] = predictions; df['prediction_confidence'] = confidence
predict_labels(d, predictions, confidence) ==
    [i \in DOMAIN d |->
        [uid |-> d[i].uid, label |-> predictions[i], prediction_confidence |-> confidence[i]]]

\* main(), steps 3 and 4: new_df is read and predict_labels is called on it
PredictLabels ==
    /\ script = "predict_labels"
    /\ pc = "loaded"
    /\ out' = predict_labels(inp.new_df, inp.predictions, inp.confidence)
    /\ pc' = "done"
    /\ UNCHANGED <<script, inp, tableVars, runVars>>

\* faulty variant: descending sort, the propagated and predicted rows come first
source_rank_descending(src) ==
    CASE src = "manual_or_previous" -> 3
      [] src = "model_prediction" -> 2
      [] src = "series_propagation" -> 1
      [] OTHER -> 4

\* sort_values('label_source'): ascending string order, NaN last
source_rank(src) ==
    CASE src = "manual_or_previous" -> 1
      [] src = "model_prediction" -> 2
      [] src = "series_propagation" -> 3
      [] OTHER -> 4

\* existing_df['label_source'] = 'manual_or_previous';
\* new_df['label_source'] = new_df.get('label_source', 'model_prediction');
\* pd.concat([existing_df, new_df], ignore_index=True)
concat_marked(existing, new, new_source) ==
    [i \in DOMAIN existing |->
        [uid |-> existing[i].uid, label |-> existing[i].label,
         label_source |-> "manual_or_previous"]]
    \o [i \in DOMAIN new |->
        [uid |-> new[i].uid, label |-> new[i].label,
         label_source |-> IF new_source = <<>> THEN "model_prediction" ELSE new_source[i]]]

\* drop_duplicates(subset=['uid'], keep='first') after the sort: of the rows of
\* one uid value (NaN is one value) a row of the least rank stays; the sort
\* is not stable, so which of several rows of the least rank is left open
drop_duplicates(c) ==
    {K \in SUBSET DOMAIN c :
        /\ \A i \in DOMAIN c : \E k \in K : c[k].uid = c[i].uid
        /\ \A j, k \in K : c[j].uid = c[k].uid => j = k
        /\ \A k \in K : \A i \in DOMAIN c :
                c[i].uid = c[k].uid
                => source_rank(c[k].label_source) <= source_rank(c[i].label_source)}

\* the rows K of c as a table, in the order of the sort
RECURSIVE sorted_rows(_, _)
sorted_rows(c, K) ==
    IF K = {} THEN <<>>
    ELSE LET k == CHOOSE x \in K : \A y \in K :
                    \/ source_rank(c[x].label_source) < source_rank(c[y].label_source)
                    \/ /\ source_rank(c[x].label_source) = source_rank(c[y].label_source)
                       /\ x <= y
         IN  <<c[k]>> \o sorted_rows(c, K \ {k})

MergeDatasets ==
    /\ script = "merge_datasets"
    /\ pc = "loaded"
    /\ LET c == concat_marked(inp.existing_df, inp.new_df, inp.label_source)
       IN  \E K \in drop_duplicates(c) : out' = sorted_rows(c, K)
    /\ pc' = "done"
    /\ UNCHANGED <<script, inp, tableVars, runVars>>

MergeRows(labels) == {[uid |-> u, label |-> l] : u \in MergeUids, l \in labels}

InitAutoLabel ==
    /\ script \in {"predict_labels", "merge_datasets"}
    /\ pc = "loaded"
    /\ IF script = "predict_labels"
       THEN \E n \in 1..MaxMergeRows :
                inp \in [new_df : [1..n -> MergeRows(FloatLabels)],
                         predictions : [1..n -> {"0.0", "1.0"}],
                         confidence : [1..n -> {60, 90}]]
       ELSE \E n \in 1..MaxMergeRows, m \in 1..MaxMergeRows :
                inp \in [existing_df : [1..n -> MergeRows(FloatLabels)],
                         new_df : [1..m -> MergeRows({"0.0", "1.0"})],
                         label_source : {<<>>} \cup [1..m -> {"series_propagation", "nan"}]]
    /\ out = <<>>
    /\ NoRuns
    /\ NoTables

NextAutoLabel ==
    \/ PredictLabels
    \/ MergeDatasets

SpecAutoLabel == InitAutoLabel /\ [][NextAutoLabel]_vars

-----------------------------------------------------------------------------
(* automated_pipeline.py: main and scrape_events.  A month page is the year *)
(* and month of its url .../events/calendar/<year>-<month>-01; the k-th     *)
(* request of a run either raises or yields a number of events.  A table   *)
(* the code may hold as None is a record with its kind in "returned".       *)

Years == {2025, 2026}

month_url(year, m) == [year |-> year, month |-> m]

\* range(a, b) of Python: a, a+1, ..., b-1.
range(a, b) == [k \in 1..(IF b > a THEN b - a ELSE 0) |-> a + k - 1]

min(a, b) == IF a < b THEN a ELSE b

RECURSIVE extend_all(_, _, _)
extend_all(urls, pages, k) ==
    IF k > Len(urls) THEN <<>>
    ELSE (IF pages[k].raises THEN <<>>
          ELSE [j \in 1..pages[k].count |-> [source_page |-> urls[k], n |-> j]])
         \o extend_all(urls, pages, k + 1)

scrape_events(year, month, pages) ==
    LET months == range(month, min(month + 2, 13))
        urls   == [k \in DOMAIN months |-> month_url(year, months[k])]
    IN  [requested |-> urls, events |-> extend_all(urls, pages, 1)]

NoDataFrame == [returned |-> "None", rows |-> <<>>]

\* faulty variant: classifies although a model file is missing.
classify_events_without_model(model_files, events_df, predictions) ==
    [returned |-> "DataFrame",
     rows |-> [i \in DOMAIN events_df |->
                 [event |-> events_df[i], is_community_event |-> predictions[i]]]]

classify_events(model_files, events_df, predictions) ==
    IF ~model_files THEN NoDataFrame
    ELSE [returned |-> "DataFrame",
          rows |-> [i \in DOMAIN events_df |->
                      [event |-> events_df[i], is_community_event |-> predictions[i]]]]

\* classified_df[classified_df['is_community_event'] == 1]
RECURSIVE community_rows(_, _)
community_rows(rows, k) ==
    IF k > Len(rows) THEN <<>>
    ELSE (IF rows[k].is_community_event = 1 THEN <<rows[k]>> ELSE <<>>)
         \o community_rows(rows, k + 1)

Placeholder == "your_email@example.com"

\* Step 1 of main: scrape_events() of the current year and month.
MainScrape ==
    /\ script = "pipeline_main"
    /\ pc = "start"
    /\ LET r == scrape_events(inp.year, inp.month, inp.pages)
       IN  /\ out' = [requested |-> r.requested, events |-> r.events,
                      classified |-> NoDataFrame, community |-> <<>>,
                      calendar_csv |-> "none", emailed |-> "no",
                      exit |-> IF r.events = <<>> THEN "no events" ELSE "running"]
           /\ pc' = IF r.events = <<>> THEN "done" ELSE "scraped"
    /\ trace' = Append(trace, "scrape")
    /\ UNCHANGED <<script, inp, tableVars, artifact>>

\* Step 2 of main: classify_events(events_df); an exception of the model ends
\* the run in the except branch.
MainClassify ==
    /\ script = "pipeline_main"
    /\ pc = "scraped"
    /\ \E predictions \in [DOMAIN out.events -> {0, 1}] :
        LET c == classify_events(inp.model_files, out.events, predictions)
        IN  IF inp.model_files /\ inp.model_raises
            THEN /\ out' = [out EXCEPT !.exit = "critical error"]
                 /\ pc' = "done"
            ELSE /\ out' = [out EXCEPT !.classified = c,
                                       !.exit = IF c = NoDataFrame THEN "no model"
                                                ELSE "running"]
                 /\ pc' = IF c = NoDataFrame THEN "done" ELSE "classified"
    /\ trace' = Append(trace, "classify")
    /\ UNCHANGED <<script, inp, tableVars, artifact>>

\* Steps 3 and 4 of main: the community events go to export_for_calendar.
MainExport ==
    /\ script = "pipeline_main"
    /\ pc = "classified"
    /\ out' = [out EXCEPT !.community = community_rows(out.classified.rows, 1),
                          !.calendar_csv = "calendar_upload.csv"]
    /\ pc' = "exported"
    /\ trace' = Append(trace, "export")
    /\ UNCHANGED <<script, inp, tableVars, artifact>>

\* Step 5 of main: send_email_notification unless the sender is the
\* placeholder; send_email_notification reports a failed delivery as False.
MainEmail ==
    /\ script = "pipeline_main"
    /\ pc = "exported"
    /\ IF inp.sender_email # Placeholder
       THEN /\ out' = [out EXCEPT !.emailed = IF inp.smtp_ok THEN "sent" ELSE "failed",
                                  !.exit = "complete"]
            /\ trace' = Append(trace, "email")
       ELSE /\ out' = [out EXCEPT !.exit = "complete"]
            /\ trace' = trace
    /\ pc' = "done"
    /\ UNCHANGED <<script, inp, tableVars, artifact>>

InitPipeline ==
    /\ script = "pipeline_main"
    /\ pc = "start"
    /\ inp \in [year : Years, month : 1..12,
                pages : [1..2 -> [raises : BOOLEAN, count : 0..MaxPageEvents]],
                model_files : BOOLEAN, model_raises : BOOLEAN,
                sender_email : {"mandevilleautospa@gmail.com", Placeholder},
                smtp_ok : BOOLEAN]
    /\ out = <<>>
    /\ NoRuns
    /\ NoTables

NextPipeline ==
    \/ MainScrape
    \/ MainClassify
    \/ MainExport
    \/ MainEmail

SpecPipeline == InitPipeline /\ [][NextPipeline]_vars

-----------------------------------------------------------------------------
(* wordpress_uploader.py: main of the uploader with create_event,           *)
(* upload_events_from_csv and publish_events.  out.requests is the log of   *)
(* the requests the session sent; a status code 0 stands for a request that *)
(* raised, an id 0 for None.  The server numbers the post it creates for    *)
(* the k-th row FirstId + k.                                                *)

FirstId == 100

Request(method, path, post, status, response, returned) ==
    [method |-> method, path |-> path, post |-> post, status |-> status,
     response |-> response, returned |-> returned]

\* test_connection: True on 200 only.
test_connection(response) == response = 200

\* the requests of create_or_get_location for a location that is absent,
\* already on the server, or new
create_or_get_location(location) ==
    CASE location = "nan"   -> <<>>
      [] location = "known" -> <<Request("GET", "event_location", 0, "none", 200, 0)>>
      [] OTHER              -> <<Request("GET", "event_location", 0, "none", 200, 0),
                                 Request("POST", "event_location", 0, "none", 201, 0)>>

\* faulty variant: creates the event published.
create_event_published(event_row, k, response) ==
    IF ~event_row.start_ok THEN [requests |-> <<>>, id |-> 0]
    ELSE [requests |-> create_or_get_location(event_row.location)
                       \o <<Request("POST", "ajde_events", 0, "publish", response,
                                    IF response = 201 THEN FirstId + k ELSE 0)>>,
          id |-> IF response = 201 THEN FirstId + k ELSE 0]

\* create_event: an unparsable start raises before anything is sent.
create_event(event_row, k, response) ==
    IF ~event_row.start_ok THEN [requests |-> <<>>, id |-> 0]
    ELSE [requests |-> create_or_get_location(event_row.location)
                       \o <<Request("POST", "ajde_events", 0, "draft", response,
                                    IF response = 201 THEN FirstId + k ELSE 0)>>,
          id |-> IF response = 201 THEN FirstId + k ELSE 0]

RECURSIVE upload_rows(_, _, _)
upload_rows(rows, responses, k) ==
    IF k > Len(rows) THEN [requests |-> <<>>, created_ids |-> <<>>]
    ELSE LET c    == create_event(rows[k], k, responses[k])
             rest == upload_rows(rows, responses, k + 1)
         IN  [requests    |-> c.requests \o rest.requests,
              created_ids |-> (IF c.id # 0 THEN <<c.id>> ELSE <<>>) \o rest.created_ids]

upload_events_from_csv(rows, dry_run, responses) ==
    IF dry_run THEN [requests |-> <<>>, created_ids |-> <<>>]
    ELSE upload_rows(rows, responses, 1)

publish_events(event_ids, responses) ==
    [k \in DOMAIN event_ids |->
        Request("POST", "ajde_events/id", event_ids[k], "publish", responses[k], 0)]

RawAnswers == {"yes", " YES ", "y", "no", ""}

\* input(...).strip().lower() on the answers above
strip_lower(answer) == IF answer = " YES " THEN "yes" ELSE answer

\* main up to the connection test.
UploaderConnect ==
    /\ script = "wordpress_uploader"
    /\ pc = "start"
    /\ out' = [requests |-> <<Request("GET", "users/me", 0, "none", inp.connection, 0)>>,
               dry_run_ids |-> <<>>, created_ids |-> <<>>, answers |-> <<>>]
    /\ pc' = IF test_connection(inp.connection) THEN "connected" ELSE "done"
    /\ trace' = Append(trace, "test_connection")
    /\ UNCHANGED <<script, inp, tableVars, artifact>>

\* main: the latest calendar_upload_*.csv, then the dry run.
UploaderDryRun ==
    /\ script = "wordpress_uploader"
    /\ pc = "connected"
    /\ IF ~inp.csv_files
       THEN /\ pc' = "done"
            /\ UNCHANGED <<out, trace>>
       ELSE LET r == upload_events_from_csv(inp.rows, TRUE, <<>>)
            IN  /\ out' = [out EXCEPT !.requests = @ \o r.requests,
                                      !.dry_run_ids = r.created_ids]
                /\ pc' = "reviewed"
                /\ trace' = Append(trace, "dry_run")
    /\ UNCHANGED <<script, inp, tableVars, artifact>>

\* main: the upload prompt and the upload.
UploaderUpload ==
    /\ script = "wordpress_uploader"
    /\ pc = "reviewed"
    /\ \E answer \in RawAnswers :
        IF strip_lower(answer) = "yes"
        THEN \E responses \in [DOMAIN inp.rows -> {0, 201, 400}] :
                LET r == upload_events_from_csv(inp.rows, FALSE, responses)
                IN  /\ out' = [out EXCEPT !.requests = @ \o r.requests,
                                          !.created_ids = r.created_ids,
                                          !.answers = Append(@, answer)]
                    /\ pc' = IF r.created_ids # <<>> THEN "created" ELSE "done"
                    /\ trace' = Append(trace, "upload")
        ELSE /\ out' = [out EXCEPT !.answers = Append(@, answer)]
             /\ pc' = "done"
             /\ trace' = trace
    /\ UNCHANGED <<script, inp, tableVars, artifact>>

\* main: the publish prompt and publish_events.
UploaderPublish ==
    /\ script = "wordpress_uploader"
    /\ pc = "created"
    /\ \E answer \in RawAnswers :
        IF strip_lower(answer) = "yes"
        THEN \E responses \in [DOMAIN out.created_ids -> {0, 200, 404}] :
                /\ out' = [out EXCEPT !.requests =
                                          @ \o publish_events(out.created_ids, responses),
                                      !.answers = Append(@, answer)]
                /\ trace' = Append(trace, "publish")
        ELSE /\ out' = [out EXCEPT !.answers = Append(@, answer)]
             /\ trace' = trace
    /\ pc' = "done"
    /\ UNCHANGED <<script, inp, tableVars, artifact>>

InitUploader ==
    /\ script = "wordpress_uploader"
    /\ pc = "start"
    /\ \E n \in 1..MaxEvents :
        inp \in [connection : {0, 200, 401, 500}, csv_files : BOOLEAN,
                 rows : [1..n -> [start_ok : BOOLEAN,
                                  location : {"nan", "known", "new"}]]]
    /\ out = <<>>
    /\ NoRuns
    /\ NoTables

NextUploader ==
    \/ UploaderConnect
    \/ UploaderDryRun
    \/ UploaderUpload
    \/ UploaderPublish

SpecUploader == InitUploader /\ [][NextUploader]_vars

-----------------------------------------------------------------------------
(* Properties of the label stages *)

\* the distinct classes (0, 1) the members of row i's series carry in table d
SeriesValues(d, i) == {LabelValue(d[j].label) : j \in Group(d, d[i].series_id)} \ {-1}

\* row i belongs to a series with a proper (present, non-empty) key
Keyed(d, i) == d[i].series_id \notin {NaN, ""}

Conflicting(d, i) == Keyed(d, i) /\ SeriesValues(d, i) = {0, 1}

\* the effective label of row i before / after the propagation call of the script
LabelBefore(i) == IF script = "merge" THEN merged[i] ELSE prev[i].label
LabelAfter(i) == df[i].label

Propagated == pc \in {"done", "again"}

\* C1: strict propagation (fill_recurring_labels): in every series (a group of
\* events sharing a present, non-empty key) whose members carry exactly one
\* distinct label value v, every member whose label was absent carries v after
\* the call.
C1_StrictFill ==
    (script = "fill" /\ Propagated) =>
        \A i \in DOMAIN df :
            (/\ Keyed(prev, i)
             /\ Cardinality(SeriesValues(prev, i)) = 1
             /\ ~IsLabeled(prev[i].label))
            => LabelValue(df[i].label) \in SeriesValues(prev, i)

C1_Witness ==
    /\ script = "fill" /\ Propagated
    /\ \E i \in DOMAIN df :
        /\ prev[i].series_id = "A"
        /\ SeriesValues(prev, i) = {1}
        /\ prev[i].label = "nan"
        /\ df[i].label = "1"

\* C2: gap-filling only: fill_recurring_labels and the propagation step of
\* merge_and_propagate_labels leave the label of every event that had a label
\* (0 or 1) before the call unchanged, whatever the event's series key is.
C2_GapFillingOnly ==
    (script \in {"fill", "merge"} /\ Propagated) =>
        \A i \in DOMAIN df : IsLabeled(LabelBefore(i)) => LabelAfter(i) = LabelBefore(i)

\* C3: propagate_series_labels of the auto-label pipeline only fills gaps: an
\* event that carries a label before the call carries the same label after it
\* (stated for the events of properly keyed series, where it already fails).
C3_AutoFillsGapsOnly ==
    (script = "auto" /\ Propagated) =>
        \A i \in DOMAIN df :
            (Keyed(df, i) /\ IsLabeled(LabelBefore(i))) => LabelAfter(i) = LabelBefore(i)

\* C4: strict propagation under conflict: in a series whose members carry both
\* label 0 and label 1, every member whose label was absent is still absent
\* after the call (fill_recurring_labels and the trainer's propagate).
C4_ConflictFillsNothing ==
    (script \in {"fill", "train"} /\ Propagated) =>
        \A i \in DOMAIN df :
            (Conflicting(prev, i) /\ ~IsLabeled(prev[i].label)) => ~IsLabeled(df[i].label)

\* C5: conflict detection is surfaced: after the propagation stage every series
\* that holds both a label 0 and a label 1 is named in a conflict diagnostic.
C5_ConflictReported ==
    (script = "fill" /\ Propagated) =>
        \A i \in DOMAIN df : Conflicting(prev, i) => prev[i].series_id \in conflicts

\* C6: propagation is idempotent: a second propagation call on the result of
\* the first changes no series key and no label, in the strict mode
\* (fill_recurring_labels) and in the majority-vote mode
\* (merge_and_propagate_labels, auto_label_and_train).
C6_Idempotent ==
    (script \in {"fill", "merge", "auto"} /\ pc = "again") =>
        \A i \in DOMAIN df :
            /\ df[i].label = prev[i].label
            /\ df[i].series_id = prev[i].series_id

C6_Witness ==
    /\ script = "merge" /\ pc = "again"
    /\ \E i, j \in DOMAIN df :
        /\ i # j
        /\ df0[i].label = "nan" /\ df0[i].predicted_label = "nan"
        /\ df0[j].label = "nan" /\ df0[j].predicted_label = "nan"
        /\ df[i].label = "1.0" /\ df[j].label = "1.0"

\* C7: an event whose series key is empty or missing never takes part in
\* propagation: its absent label is never filled (so no other event of the same
\* empty key filled it), in every propagation implementation.
C7_EmptyKeyNeverPropagates ==
    Propagated =>
        \A i \in DOMAIN df :
            (df[i].series_id \in {NaN, ""} /\ ~IsLabeled(LabelBefore(i))) => ~IsLabeled(LabelAfter(i))

\* C8: label merge priority: the effective label before propagation is the
\* manual label when it is present, else the predicted label when it is
\* present, else absent; merge(1, 0) = 1, merge(absent, 0) = 0,
\* merge(absent, absent) = absent.
C8_MergePriority ==
    (script = "merge" /\ Propagated) =>
        \A i \in DOMAIN prev :
            /\ prev[i].label # "nan" => merged[i] = prev[i].label
            /\ (prev[i].label = "nan" /\ prev[i].predicted_label # "nan")
                    => merged[i] = prev[i].predicted_label
            /\ (prev[i].label = "nan" /\ prev[i].predicted_label = "nan")
                    => merged[i] = "nan"

C8_Witness ==
    /\ script = "merge" /\ pc = "done"
    /\ \E i, j, k \in DOMAIN prev :
        /\ prev[i].label = "1.0" /\ prev[i].predicted_label = "0.0" /\ merged[i] = "1.0"
        /\ prev[j].label = "nan" /\ prev[j].predicted_label = "0.0" /\ merged[j] = "0.0"
        /\ prev[k].label = "nan" /\ prev[k].predicted_label = "nan" /\ merged[k] = "nan"

\* the label the majority vote gives the series of row i: the more frequent
\* of the labels its members carried before the call, 0 on a tie (the first
\* mode)
MajorityBefore(i) ==
    LET g == Group(df, df[i].series_id)
        n0 == Cardinality({j \in g : LabelValue(LabelBefore(j)) = 0})
        n1 == Cardinality({j \in g : LabelValue(LabelBefore(j)) = 1})
    IN  IF n1 > n0 THEN 1 ELSE 0

\* C12: majority-vote mode (merge_and_propagate_labels, auto_label_and_train):
\* in every series with a present, non-empty key and at least one labeled
\* member, every member whose label was absent carries the most frequent label
\* of the labeled members after the call, also when both 0 and 1 are present;
\* on a tie it carries the first mode, 0.
C12_MajorityFill ==
    (script \in {"merge", "auto"} /\ Propagated) =>
        \A i \in DOMAIN df :
            (/\ Keyed(df, i)
             /\ ~IsLabeled(LabelBefore(i))
             /\ \E j \in Group(df, df[i].series_id) : IsLabeled(LabelBefore(j)))
            => LabelValue(LabelAfter(i)) = MajorityBefore(i)

\* a series of two 1s and one 0 fills its gap with 1, and a tied series of one
\* 1 and one 0 fills its gap with 0
C12_Witness ==
    /\ script = "merge" /\ pc = "done"
    /\ \E i \in DOMAIN df :
        /\ df[i].series_id = "A" /\ merged[i] = "nan" /\ df[i].label = "1.0"
        /\ Cardinality({j \in Group(df, "A") : merged[j] = "1.0"}) = 2
        /\ Cardinality({j \in Group(df, "A") : merged[j] = "0.0"}) = 1

\* C13: after propagation label_source = series_propagation is set on exactly
\* the events whose label was absent before the propagation call and was
\* filled by it; an event labeled before the call does not get it (stated for
\* the events of properly keyed series of the auto-label pipeline, the
\* propagator that writes the column).
C13_PropagationSource ==
    (script = "auto" /\ pc = "done") =>
        \A i \in DOMAIN df :
            Keyed(df, i) =>
                (label_source[i] = "series_propagation"
                    <=> (~IsLabeled(LabelBefore(i)) /\ IsLabeled(LabelAfter(i))))

\* C25: the trainer's --propagate-series-labels step is the same operation as
\* fill_recurring_labels: on every table whose label values are among 0, 1,
\* 0.0, 1.0 and absent, both mark the same events as labeled with the same
\* class (stated for tables of properly keyed events whose label column is a
\* float column, 0.0, 1.0 or absent, as read_csv yields for a column with gaps).
C25_TrainerPropagatesAsFill ==
    (/\ script \in {"fill", "train"}
     /\ pc = "done"
     /\ \A i \in DOMAIN df0 : Keyed(df0, i) /\ df0[i].label \in FloatLabels) =>
        \A i \in DOMAIN df :
            LabelValue(df[i].label) =
                LabelValue((IF script = "fill" THEN train_propagate_labels(df0)
                            ELSE fill_recurring_labels(df0))[i].label)

-----------------------------------------------------------------------------
(* Properties of the series resolver *)

Resolved == script = "resolve" /\ pc = "done"

\* a uid cell that is missing, or blank after trimming
NoUid(e) == e.uid = NA \/ Strip(e.uid) = <<>>

\* the key rules 2 and 3 give: the normalized url, else title|location
KeyWithoutUid(e) ==
    IF _norm_url(e.url) # <<>> THEN _norm_url(e.url)
    ELSE _norm_str(e.title) \o <<"|">> \o _norm_str(e.location)

\* C9: series resolver, rule 1: an event whose uid is present and non-empty
\* after trimming gets the trimmed uid as its key; for an event whose uid is
\* missing or blank the uid rule does not apply and the key comes from the
\* next rule (url).
C9_UidRule ==
    Resolved =>
        \A i \in DOMAIN events :
            /\ ~NoUid(events[i]) => series[i] = Strip(events[i].uid)
            /\ NoUid(events[i]) => series[i] = KeyWithoutUid(events[i])

\* C10: series resolver, rule 2: two events without a uid whose urls differ
\* only by a query string, a fragment or a trailing slash get the same series
\* key, the url with query string and fragment stripped and trailing slash
\* removed.
C10_UrlRule ==
    (/\ Resolved
     /\ NoUid(events[1]) /\ NoUid(events[2])
     /\ events[1].url # NA /\ events[2].url # NA
     /\ _norm_url(events[1].url) # <<>>
     /\ _norm_url(events[1].url) = _norm_url(events[2].url))
    => (series[1] = series[2] /\ series[1] = _norm_url(events[1].url))

-----------------------------------------------------------------------------
(* Properties of the trainers *)

Trained == script \in {"trainer", "auto_train"} /\ pc = "done"

\* C14: training with fewer labeled rows than the minimum (5) fails with an
\* insufficient-data error: the stage ends abnormally (an exception or
\* SystemExit, not a normal return) and no model is fitted or saved.
C14_InsufficientData ==
    (Trained /\ Len(inp.rows) < min_labeled) =>
        /\ out.exit \in {"SystemExit", "ValueError"}
        /\ out.fit = "none"
        /\ ~out.saved

TrainerDone == script = "trainer" /\ pc = "done" /\ out.exit = "ok"

\* the labeled set the trainer fits on has three distinct series and both classes
ThreeSeriesBothClasses ==
    /\ Cardinality({inp.rows[i].series_id : i \in out.used} \ {NaN}) >= 3
    /\ {inp.rows[i].y : i \in out.used} = {0, 1}

\* no series key occurs on both sides of the split
NoLeak ==
    \A i \in out.train_idx, j \in out.test_idx :
        inp.rows[i].series_id # inp.rows[j].series_id

\* C15 as claimed: the trainer uses a group-aware split keyed by the series key
\* exactly when the labeled set has at least 3 distinct series and both
\* classes; then no series key occurs on both sides; otherwise it fits on all
\* labeled rows with no held-out evaluation.
C15_SplitExactlyWhen ==
    TrainerDone =>
        /\ out.fit = "split" <=> ThreeSeriesBothClasses
        /\ out.fit = "split" => (NoLeak /\ out.test_idx # {})
        /\ out.fit # "split" => (out.train_idx = out.used /\ out.test_idx = {})

\* C15, amended: the trainer attempts the group-aware split exactly when the
\* labeled set has at least 3 distinct series and both classes; a model fitted
\* on a split has no series key on both sides and the two sides cover the
\* labeled set; when the fit on the training side raises, the trainer falls
\* back to fitting on all labeled rows; without three series and both classes
\* it fits on all labeled rows; the fallback and the plain fit hold out nothing.
C15_SplitOrFallback ==
    TrainerDone =>
        /\ out.fit \in {"split", "fallback"} <=> ThreeSeriesBothClasses
        /\ out.fit = "split" =>
                /\ NoLeak
                /\ out.test_idx # {}
                /\ out.train_idx \cup out.test_idx = out.used
        /\ out.fit = "fallback" =>
                \E T \in GroupShuffleSplit(inp.rows, out.used) :
                    fit(inp.rows, out.used \ InGroups(inp.rows, out.used, T),
                        inp.split_vocab) # "fitted"
        /\ out.fit # "split" => (out.train_idx = out.used /\ out.test_idx = {})

\* a split of four labeled rows of three series: two series train, one tests
C15_Witness ==
    /\ TrainerDone
    /\ out.fit = "split"
    /\ Cardinality(out.train_idx) = 3
    /\ Cardinality(out.test_idx) = 1
    /\ Cardinality({inp.rows[i].series_id : i \in out.train_idx}) = 2

-----------------------------------------------------------------------------
(* Properties of the predictors *)

\* a predictor that works from margins has written a confidence column
Scored ==
    /\ script \in {"svm_tag_events", "svm_tag_from_file", "smart_label_helper"}
    /\ pc = "done"
    /\ out.exit = "ok"
    /\ out.confidence # <<>>

\* the fraction a is at most the fraction b
AtMost(a, b) == a.num * b.den <= b.num * a.den

\* C16: every predictor stage (svm_tag_events, svm_tag_from_file,
\* smart_label_helper) derives the confidence from the margin by the same
\* function, 1 / (1 + |margin|); its value lies in [0, 1] and it is monotonic
\* non-increasing in the absolute margin.
C16_SameNormalization ==
    Scored =>
        \A i \in DOMAIN inp.margins :
            /\ out.confidence[i] = Frac(MarginScale, MarginScale + Abs(inp.margins[i]))
            /\ AtMost(Frac(0, 1), out.confidence[i])
            /\ AtMost(out.confidence[i], Frac(1, 1))
            /\ \A j \in DOMAIN inp.margins :
                    Abs(inp.margins[i]) > Abs(inp.margins[j])
                    => AtMost(out.confidence[i], out.confidence[j])

\* C17: confidence grows with the distance to the decision boundary: an event
\* with the larger absolute margin has a confidence at least as large, so an
\* event flagged needs_review is no farther from the boundary than an event
\* that is not flagged (smart_label_helper, svm_tag_events).
C17_ConfidenceGrowsWithDistance ==
    (Scored /\ script \in {"svm_tag_events", "smart_label_helper"}) =>
        \A i, j \in DOMAIN inp.margins :
            /\ Abs(inp.margins[i]) > Abs(inp.margins[j])
                    => AtMost(out.confidence[j], out.confidence[i])
            /\ (/\ out.needs_review # <<>>
                /\ out.needs_review[i] /\ ~out.needs_review[j])
                    => Abs(inp.margins[i]) <= Abs(inp.margins[j])

\* C18: for every predicted event needs_review is true exactly when its
\* confidence is strictly below the threshold the caller supplied
\* (smart_label, classify_events).
C18_ReviewBelowThreshold ==
    (/\ script \in {"smart_label_helper", "automated_pipeline"}
     /\ pc = "done"
     /\ out.exit = "ok") =>
        \A i \in DOMAIN out.confidence :
            out.needs_review[i] <=> Below(out.confidence[i], inp.threshold)

\* the artifact holds no column mapping, or the input table lacks a column the
\* predictor reads
SchemaMismatch ==
    \/ inp.artifact \in {"legacy", "bare"}
    \/ \E k \in DOMAIN DefaultCols :
            (IF inp.artifact = "columns_custom" /\ k = "title" THEN "summary"
             ELSE DefaultCols[k]) \notin inp.columns

\* C19: predicting with a feature configuration that does not match the
\* artifact's schema (the artifact lacks the column mapping, or the input lacks
\* a column of it) ends in a reported error; the predictor never substitutes
\* default column names or blank columns (svm_tag_events, smart_label_helper).
C19_SchemaMismatchRejected ==
    (/\ script \in {"svm_tag_events", "smart_label_helper"}
     /\ pc = "done"
     /\ inp.artifact # "missing"
     /\ SchemaMismatch) =>
        /\ out.exit # "ok"
        /\ ~out.defaults_used
        /\ out.blank = {}

-----------------------------------------------------------------------------
(* Properties of input loading *)

\* the path has neither the csv nor the json extension
UnsupportedExtension == inp.suffix \notin {".csv", ".CSV", ".json", ".JSON"}

\* a JSON document that is neither a list nor an object with an "events" key
NeitherListNorEvents ==
    /\ inp.suffix \in {".json", ".JSON"}
    /\ inp.data.kind # "list"
    /\ ~(inp.data.kind = "dict" /\ inp.data.events # "none")

\* C20: input loading of every stage: a file with an unsupported extension, or
\* a JSON document that is neither a list nor an object with an "events" key,
\* is rejected with an error and no table is produced.
C20_BadInputRejected ==
    (/\ script \in {"svm_train_from_file.load_any", "svm_tag_events.load_any",
                     "events_to_labelset.load_any"}
     /\ pc = "done"
     /\ (UnsupportedExtension \/ NeitherListNorEvents)) =>
        /\ out.exit # "ok"
        /\ out.table = "none"

-----------------------------------------------------------------------------
(* Properties of the classifier life cycle *)

\* a predictor run has ended and has computed predictions
Predicted == script \in PredictorScripts /\ pc = "done" /\ out.exit = "ok"

\* the file at the predictor's path was written by a training whose fit returned
FromCompletedTraining ==
    /\ artifact[model_path(script)].kind # "missing"
    /\ artifact[model_path(script)].fit \in {"split", "all", "fallback"}

\* C21: classifier life cycle: a prediction is only ever computed with an
\* artifact produced by a completed training; a predict stage that finds no
\* artifact stops without output; no predict or tag stage writes or changes
\* the model artifact.
C21_LifeCycle ==
    /\ [](Predicted => FromCompletedTraining)
    /\ []((script \in PredictorScripts /\ pc = "done" /\ inp.artifact = "missing")
            => (out.exit # "ok" /\ out.predicted_label = <<>>))
    /\ [][(script \in PredictorScripts /\ pc = "loaded") => artifact' = artifact]_vars

\* a tagger predicts with the artifact an earlier trainer run has saved
C21_Witness ==
    /\ script = "svm_tag_events"
    /\ Predicted
    /\ trace = <<"trainer", "svm_tag_events">>
    /\ artifact["models/community_svm.pkl"].fit = "all"
    /\ out.predicted_label = <<1>>

-----------------------------------------------------------------------------
(* Properties of the scraper *)

IcsDone == script = "get_ics_url_from_event" /\ pc = "done"

\* the event page was fetched: the session raised nothing
PageFetched == raise_for_status(inp.session, inp.status) = "none"

\* the href of the page's 'Add to Calendar - iCal' link, else of its .ics link
IcsLink ==
    IF inp.page.ical \notin {NoAnchor, NoHref} THEN inp.page.ical
    ELSE IF inp.page.generic \notin {NoAnchor, NoHref} THEN inp.page.generic
    ELSE NoAnchor

\* the page url holds /events/details/<slug> with a non-empty slug
HasDetailsSlug ==
    \E k \in 1..(Len(inp.event_url.path) - 2) :
        /\ inp.event_url.path[k] = "events"
        /\ inp.event_url.path[k + 1] = "details"
        /\ inp.event_url.path[k + 2] # ""

\* C22: get_ics_url_from_event resolves the ICS url of a fetched event page in
\* a fixed order: when the page has an 'Add to Calendar - iCal' link (or any
\* link ending in .ics), that link joined to BASE is returned; otherwise, when
\* the page url has the form /events/details/<slug>, BASE/events/ical/<slug>.ics
\* is returned; otherwise None.
C22_IcsUrlOrder ==
    (IcsDone /\ PageFetched) =>
        /\ out.exit = "return"
        /\ IcsLink # NoAnchor =>
                out.value = (IF IcsLink.host = "" THEN Url(BASE, IcsLink.path) ELSE IcsLink)
        /\ (IcsLink = NoAnchor /\ HasDetailsSlug) =>
                /\ out.value.host = BASE
                /\ Len(out.value.path) = 3
                /\ out.value.path[1] = "events" /\ out.value.path[2] = "ical"
                /\ \E k \in 1..(Len(inp.event_url.path) - 2) :
                        out.value.path[3] = inp.event_url.path[k + 2] \o ".ics"
        /\ (IcsLink = NoAnchor /\ ~HasDetailsSlug) => out.value = None

\* the fallback of the test: no link on the page, the slug builds the url
C22_Witness ==
    /\ IcsDone /\ PageFetched
    /\ inp.page.ical = NoAnchor /\ inp.page.generic = NoAnchor
    /\ inp.event_url = Url(BASE, <<"events", "details", "some-event-12345">>)
    /\ out.value = Url(BASE, <<"events", "ical", "some-event-12345.ics">>)

\* C23: when fetching the event page fails with an HTTP error status,
\* get_ics_url_from_event raises an exception to its caller.
C23_HttpErrorRaises ==
    (IcsDone /\ inp.status >= 400 /\ inp.status < 600) => out.exit = "raise"

-----------------------------------------------------------------------------
(* Properties of predict_labels and merge_datasets *)

\* C24: in the auto-label pipeline predict_labels assigns a predicted label
\* only to events whose label is absent: a new event that already carries a
\* label keeps that label after the prediction step.
C24_PredictKeepsLabels ==
    (script = "predict_labels" /\ pc = "done") =>
        \A i \in DOMAIN inp.new_df :
            inp.new_df[i].label # "nan" => out[i].label = inp.new_df[i].label

\* the uids that occur in the existing data and in the new data
InBoth == ({inp.existing_df[i].uid : i \in DOMAIN inp.existing_df}
           \cap {inp.new_df[i].uid : i \in DOMAIN inp.new_df}) \ {NaN}

\* C26: merge_datasets removes duplicates by uid keeping manual labels: when
\* the same uid occurs in the existing labeled data and in the new predicted
\* data, the result holds exactly one row for that uid and it is the row from
\* the existing data; every uid of either table is in the result.
C26_MergeKeepsExisting ==
    (script = "merge_datasets" /\ pc = "done") =>
        /\ \A u \in InBoth :
            /\ Cardinality({k \in DOMAIN out : out[k].uid = u}) = 1
            /\ \A k \in DOMAIN out :
                    out[k].uid = u =>
                        /\ out[k].label_source = "manual_or_previous"
                        /\ \E i \in DOMAIN inp.existing_df :
                                /\ inp.existing_df[i].uid = u
                                /\ inp.existing_df[i].label = out[k].label
        /\ \A u \in MergeUids \ {NaN} :
            (\E i \in DOMAIN inp.existing_df : inp.existing_df[i].uid = u)
            \/ (\E i \in DOMAIN inp.new_df : inp.new_df[i].uid = u)
            => \E k \in DOMAIN out : out[k].uid = u

\* uid E1 is labeled 1 in the existing data and predicted 0 in the new data:
\* the merged table holds one E1 row, with label 1, next to the new E2 row
C26_Witness ==
    /\ script = "merge_datasets" /\ pc = "done"
    /\ \E i \in DOMAIN inp.existing_df :
            inp.existing_df[i].uid = "E1" /\ inp.existing_df[i].label = "1.0"
    /\ \A i \in DOMAIN inp.existing_df : inp.existing_df[i].uid = "E1" => inp.existing_df[i].label = "1.0"
    /\ \E i \in DOMAIN inp.new_df : inp.new_df[i].uid = "E1" /\ inp.new_df[i].label = "0.0"
    /\ \E i \in DOMAIN inp.new_df : inp.new_df[i].uid = "E2"
    /\ \E k \in DOMAIN out : out[k].uid = "E1" /\ out[k].label = "1.0"
    /\ \E k \in DOMAIN out : out[k].uid = "E2" /\ out[k].label_source = "series_propagation"
    /\ Len(out) = 2

\* a url cell that is missing, or blank after trimming
NoUrl(e) == e.url = NA \/ Strip(e.url) = <<>>

\* C11: series resolver, rule 3: an event with neither a uid nor a url (each
\* missing or blank) gets the key normalized title + "|" + normalized
\* location, so two such events with equal normalized title and equal
\* normalized location get the same key.
C11_TitleLocationRule ==
    Resolved =>
        /\ \A i \in DOMAIN events :
            (NoUid(events[i]) /\ NoUrl(events[i]))
            => series[i] = _norm_str(events[i].title) \o <<"|">> \o _norm_str(events[i].location)
        /\ (/\ \A i \in DOMAIN events : NoUid(events[i]) /\ NoUrl(events[i])
            /\ _norm_str(events[1].title) = _norm_str(events[2].title)
            /\ _norm_str(events[1].location) = _norm_str(events[2].location))
           => series[1] = series[2]

-----------------------------------------------------------------------------
(* Properties of the automated pipeline *)

Scraped == script = "pipeline_main" /\ pc # "start"

\* The calendar month that follows month m of year y.
following_month(y, m) == IF m = 12 THEN month_url(y + 1, 1) ELSE month_url(y, m + 1)

\* C27: scrape_events requests two month pages for every starting month 1..12:
\* the page of the given month, then the page of the following calendar month.
C27_CurrentAndNextMonth ==
    Scraped =>
        out.requested = <<month_url(inp.year, inp.month),
                          following_month(inp.year, inp.month)>>

IsPrefix(a, b) == Len(a) <= Len(b) /\ \A k \in DOMAIN a : a[k] = b[k]

InTrace(stage) == \E k \in DOMAIN trace : trace[k] = stage

-----------------------------------------------------------------------------
(* Properties of the uploader *)

UploaderStarted == script = "wordpress_uploader" /\ pc # "start"

IsCreate(r) == r.method = "POST" /\ r.path = "ajde_events"

IsPublish(r) == r.method = "POST" /\ r.path = "ajde_events/id"

\* the post of publish request k was created as a draft by an earlier request
CreatedAsDraftBefore(k) ==
    \E j \in 1..(k - 1) :
        /\ IsCreate(out.requests[j])
        /\ out.requests[j].status = "draft"
        /\ out.requests[j].response = 201
        /\ out.requests[j].returned = out.requests[k].post

\* C28: uploader ordering: the dry run sends no create request and returns no
\* ids; every create request carries status draft; a publish request names a
\* post created as a draft earlier in the run and follows a 'yes' to both the
\* upload and the publish prompt; after a failed connection test nothing is
\* sent but the test itself.
C28_UploaderOrdering ==
    UploaderStarted =>
        /\ out.dry_run_ids = <<>>
        /\ pc = "reviewed" => \A k \in DOMAIN out.requests : ~IsCreate(out.requests[k])
        /\ \A k \in DOMAIN out.requests :
            /\ IsCreate(out.requests[k]) =>
                /\ out.requests[k].status = "draft"
                /\ Len(out.answers) >= 1
                /\ strip_lower(out.answers[1]) = "yes"
            /\ IsPublish(out.requests[k]) =>
                /\ CreatedAsDraftBefore(k)
                /\ Len(out.answers) = 2
                /\ strip_lower(out.answers[1]) = "yes"
                /\ strip_lower(out.answers[2]) = "yes"
        /\ ~test_connection(inp.connection) =>
                /\ pc = "done"
                /\ Len(out.requests) = 1
                /\ out.created_ids = <<>>

\* A run created two drafts and published them after two 'yes' answers.
C28_Witness ==
    /\ script = "wordpress_uploader"
    /\ pc = "done"
    /\ Len(out.created_ids) = 2
    /\ \E k \in DOMAIN out.requests :
        IsPublish(out.requests[k]) /\ out.requests[k].response = 200

-----------------------------------------------------------------------------
(* Properties of the two propagation modes *)

ConflictFree(d) == \A i \in DOMAIN d : Keyed(d, i) /\ ~Conflicting(d, i)

\* C30: on a table whose labels are 0, 1 or absent, whose series keys are all
\* non-empty and where no series holds both 0 and 1, the majority vote of
\* merge_and_propagate_labels gives every event the label that the strict
\* fill_recurring_labels gives it.
C30_ModesAgreeWithoutConflict ==
    (script = "merge" /\ pc = "done" /\ ConflictFree(df0)) =>
        \A i \in DOMAIN df :
            LabelValue(df[i].label) = LabelValue(fill_recurring_labels(df0)[i].label)

\* Both modes filled a gap: a conflict-free table of two series lost an
\* unlabeled cell.
C30_Witness ==
    /\ script = "merge"
    /\ pc = "done"
    /\ ConflictFree(df0)
    /\ {df0[i].series_id : i \in DOMAIN df0} = {"A", "B"}
    /\ \E i \in DOMAIN df0 :
        /\ df0[i].label = "nan"
        /\ LabelValue(df[i].label) = 1
        /\ LabelValue(fill_recurring_labels(df0)[i].label) = 1

====
